---- MODULE Spec2Model ----
(***************************************************************************)
(* Model of the git object decoder and the branch history builder of       *)
(* sim-deos/plain (package internal/git): Decoder (NewDecoder, Reset,      *)
(* Header, DecodeCommit, Close), GetHistoryFor, the HeaderScanner of       *)
(* git.go, and ShellClient.IsBranchDirty under the done command.           *)
(*                                                                         *)
(* Bytes are one-character strings, byte slices are sequences of them.     *)
(* Indexes are Go indexes (0-based, -1 for "not found").                   *)
(***************************************************************************)
EXTENDS Integers, Sequences, FiniteSets, TLC

VARIABLES
    \* ---- the decoder under a caller that calls its methods in any order
    dsrc,       \* the object whose compressed bytes the last NewDecoder/Reset got
    dec,        \* the Decoder: zr (zlib reader) and br (bufio.Reader)
    res,        \* what the last method call returned
    cycle,      \* the calls since (and with) the last NewDecoder/Reset, oldest first
    prevBuf,    \* br's unread bytes at the moment of the last Reset call
    resets,     \* number of Reset calls made
    \* ---- one call of GetHistoryFor
    repo,       \* the repository on disk: environment, head and object store
    pc,         \* position in GetHistoryFor
    d,          \* its Decoder
    graph,      \* its BranchHistory under construction
    stack,      \* its work stack
    curr,       \* currCommitHash
    ret,        \* what GetHistoryFor returned
    closes,     \* number of d.Close() calls made
    decodes,    \* per hash, the number of DecodeCommit calls made for it
    \* ---- the HeaderScanner under a caller that scans, resets and reads
    hs,         \* the HeaderScanner: br over the reader it was last given
    hobj,       \* the object whose bytes that reader delivers
    payloads,   \* the payload readers the Scan calls returned, oldest first
    hlog,       \* the calls made on the scanner, oldest first
    \* ---- one run of the done command
    gitrun,     \* how the external git diff command ends: exit status or failure
    spc,        \* position in the done command and in IsBranchDirty
    serr,       \* err of IsBranchDirty, as gitCmd.Output() returned it
    code,       \* code of IsBranchDirty
    isdirty,    \* what IsBranchDirty returned
    printed     \* what the done command printed

decVars == <<dsrc, dec, res, cycle, prevBuf, resets>>
histVars == <<repo, pc, d, graph, stack, curr, ret, closes, decodes>>
scanVars == <<hs, hobj, payloads, hlog>>
shellVars == <<gitrun, spc, serr, code, isdirty, printed>>
vars ==
    <<dsrc, dec, res, cycle, prevBuf, resets, repo, pc, d, graph, stack, curr, ret, closes,
      decodes, hs, hobj, payloads, hlog, gitrun, spc, serr, code, isdirty, printed>>

-----------------------------------------------------------------------------
(* Bytes *)

SP == " "
NUL == "NUL"
LF == "LF"
LT == "<"
GT == ">"

Digits == <<"0", "1", "2", "3", "4", "5", "6", "7", "8", "9">>

IsDigit(c) == \E i \in 1..10 : Digits[i] = c

DigitVal(c) == (CHOOSE i \in 1..10 : Digits[i] = c) - 1

bCommit == <<"c", "o", "m", "m", "i", "t">>
bBlob == <<"b", "l", "o", "b">>
bTag == <<"t", "a", "g">>
bParent == <<"p", "a", "r", "e", "n", "t">>
bTree == <<"t", "r", "e", "e">>
bAuthor == <<"a", "u", "t", "h", "o", "r">>
bCommitter == <<"c", "o", "m", "m", "i", "t", "t", "e", "r">>

CommitObject == 1
TreeObject == 2
BlobObject == 3
TagObject == 4

\* slices.Index: the 0-based index of the first c in s, or -1
Index(s, c) ==
    IF \E i \in 1..Len(s) : s[i] = c
    THEN (CHOOSE i \in 1..Len(s) : s[i] = c /\ \A j \in 1..(i - 1) : s[j] # c) - 1
    ELSE -1

\* the Go slice expression s[lo:hi], for 0 <= lo <= hi <= len(s)
Slice(s, lo, hi) == SubSeq(s, lo + 1, hi)

\* bytes.HasPrefix
HasPrefix(s, p) == Len(s) >= Len(p) /\ SubSeq(s, 1, Len(p)) = p

\* a trim that removes every trailing line feed and space
RECURSIVE TrimRight(_)
TrimRight(s) ==
    IF Len(s) > 0 /\ s[Len(s)] \in {LF, SP} THEN TrimRight(SubSeq(s, 1, Len(s) - 1)) ELSE s

\* strings.TrimSuffix(s, "\n")
TrimSuffixLF(s) ==
    IF Len(s) > 0 /\ s[Len(s)] = LF THEN SubSeq(s, 1, Len(s) - 1) ELSE s

RECURSIVE Flatten(_)
Flatten(chunks) ==
    IF chunks = <<>> THEN <<>> ELSE Head(chunks) \o Flatten(Tail(chunks))

-----------------------------------------------------------------------------
(* bytesToInt64 / bytesToInt: decimal digits to an integer; the first       *)
(* non-digit byte is an error and the value returned with it is -1.         *)

RECURSIVE bytesToIntFrom(_, _)
bytesToIntFrom(n, i) ==
    IF n = <<>> THEN [v |-> i, err |-> "nil"]
    ELSE IF ~IsDigit(Head(n)) THEN [v |-> -1, err |-> "ErrUnrecognizedValue"]
    ELSE bytesToIntFrom(Tail(n), i * 10 + DigitVal(Head(n)))

\* a conversion that leaves out the last digit
bytesToInt64DropsLast(n) == bytesToIntFrom(IF n = <<>> THEN n ELSE SubSeq(n, 1, Len(n) - 1), 0)

bytesToInt64(n) == bytesToIntFrom(n, 0)

bytesToInt(n) == bytesToIntFrom(n, 0)

-----------------------------------------------------------------------------
(* The compressed source and the two readers of a Decoder.                 *)
(*                                                                         *)
(* A source is what zlib makes of the bytes of a file: hdr is the result    *)
(* of reading the zlib header ("nil" when valid), chunks are the pieces of  *)
(* decompressed data successive Read calls deliver, and end is the error    *)
(* Read reports after the last piece (io.EOF for a well-formed stream).     *)
(* zr is [chunks, end]: the data not yet read. br is the unread part of     *)
(* the bufio.Reader's buffer, so br.Buffered() is Len(br). Objects are      *)
(* shorter than bufio's buffer, so ReadSlice never reports a full buffer.   *)

ZeroTime == [sec |-> 0, offset |-> 0, zone |-> <<>>, isZero |-> TRUE]

ZeroSignature == [Name |-> <<>>, Email |-> <<>>, Time |-> ZeroTime]

ZeroCommit ==
    [Hash |-> <<>>, Tree |-> <<>>, Message |-> <<>>, Author |-> ZeroSignature,
     Committer |-> ZeroSignature, Parents |-> <<>>]

ZeroHeader == [Kind |-> 0, Size |-> 0]

\* Commit.IsLeaf
IsLeaf(c) == Len(c.Parents) = 0

NilDecoder == [zr |-> [chunks |-> <<>>, end |-> "nilpointer"], br |-> <<>>]

\* NewDecoder(src): zlib.NewReader reads the zlib header of src
NewDecoder(src) ==
    IF src.hdr # "nil"
    THEN [d |-> NilDecoder, err |-> src.hdr]
    ELSE [d |-> [zr |-> [chunks |-> src.chunks, end |-> src.end], br |-> <<>>],
          err |-> "nil"]

\* a Reset that resets the zlib reader and forgets d.br.Reset(d.zr)
ResetKeepsBuffer(dd, src) ==
    IF src.hdr # "nil"
    THEN [d |-> [dd EXCEPT !.zr = [chunks |-> <<>>, end |-> src.hdr]], err |-> src.hdr]
    ELSE [d |-> [dd EXCEPT !.zr = [chunks |-> src.chunks, end |-> src.end]], err |-> "nil"]

\* a Reset that rewinds the buffered view and forgets to reset the zlib reader
ResetKeepsStream(dd, src) ==
    IF src.hdr # "nil"
    THEN [d |-> [dd EXCEPT !.zr = [chunks |-> <<>>, end |-> src.hdr]], err |-> src.hdr]
    ELSE [d |-> [dd EXCEPT !.br = <<>>], err |-> "nil"]

\* Decoder.Reset: a failed zlib Reset leaves its error in the zlib reader, so
\* every later Read reports it, and leaves br as it was
Reset(dd, src) ==
    IF src.hdr # "nil"
    THEN [d |-> [dd EXCEPT !.zr = [chunks |-> <<>>, end |-> src.hdr]], err |-> src.hdr]
    ELSE [d |-> [zr |-> [chunks |-> src.chunks, end |-> src.end], br |-> <<>>],
          err |-> "nil"]

\* d.br.ReadSlice(delim): the bytes up to and including the first delim,
\* filling the buffer from zr as long as none is buffered; when zr reports an
\* error first, all buffered bytes are returned (and consumed) with the error
RECURSIVE ReadSlice(_, _)
ReadSlice(dd, delim) ==
    LET i == Index(dd.br, delim) IN
    IF i # -1
    THEN [line |-> Slice(dd.br, 0, i + 1), err |-> "nil",
          d |-> [dd EXCEPT !.br = Slice(dd.br, i + 1, Len(dd.br))]]
    ELSE IF dd.zr.chunks = <<>>
    THEN [line |-> dd.br, err |-> dd.zr.end, d |-> [dd EXCEPT !.br = <<>>]]
    ELSE ReadSlice([zr |-> [dd.zr EXCEPT !.chunks = Tail(@)],
                    br |-> dd.br \o Head(dd.zr.chunks)], delim)

\* io.ReadAll(d.br): everything buffered and everything zr still delivers;
\* io.EOF ends the read without error
ReadAll(dd) ==
    [data |-> dd.br \o Flatten(dd.zr.chunks),
     err |-> IF dd.zr.end = "EOF" THEN "nil" ELSE dd.zr.end,
     d |-> [zr |-> [dd.zr EXCEPT !.chunks = <<>>], br |-> <<>>]]

\* a kind switch that takes every known kind for a commit
KindOfAlwaysCommit(line) ==
    IF HasPrefix(line, bCommit) \/ HasPrefix(line, bTree)
       \/ HasPrefix(line, bBlob) \/ HasPrefix(line, bTag)
    THEN CommitObject
    ELSE 0

\* the kind switch of Header
KindOf(line) ==
    IF HasPrefix(line, bCommit) THEN CommitObject
    ELSE IF HasPrefix(line, bTree) THEN TreeObject
    ELSE IF HasPrefix(line, bBlob) THEN BlobObject
    ELSE IF HasPrefix(line, bTag) THEN TagObject
    ELSE 0

\* Header, lines 184-191: the size behind the first space of line
headerSize(dd, kind, size) ==
    IF size.err # "nil"
    THEN [hdr |-> ZeroHeader, err |-> size.err, d |-> dd]
    ELSE [hdr |-> [Kind |-> kind, Size |-> size.v], err |-> "nil", d |-> dd]

\* Header, lines 169-181: the kind of line, the header without its NUL
headerKind(dd, line) ==
    IF KindOf(line) = 0
    THEN [hdr |-> ZeroHeader, err |-> "ErrUnknownObject", d |-> dd]
    ELSE headerSize(dd, KindOf(line),
                    bytesToInt64(Slice(line, Index(line, SP) + 1, Len(line))))

\* Header, lines 163-167: rs is what ReadSlice('\x00') returned
headerLine(rs) ==
    IF rs.err # "nil"
    THEN [hdr |-> ZeroHeader, err |-> rs.err, d |-> rs.d]
    ELSE headerKind(rs.d, Slice(rs.line, 0, Len(rs.line) - 1))

\* a Header without the Buffered() guard
HeaderUnguarded(dd) == headerLine(ReadSlice(dd, NUL))

\* a Header that reads its line before it looks at Buffered()
HeaderReadsFirst(dd) ==
    IF Len(dd.br) > 0
    THEN [hdr |-> ZeroHeader, err |-> "ErrNotReset", d |-> ReadSlice(dd, NUL).d]
    ELSE headerLine(ReadSlice(dd, NUL))

\* Decoder.Header
Header(dd) ==
    IF Len(dd.br) > 0
    THEN [hdr |-> ZeroHeader, err |-> "ErrNotReset", d |-> dd]
    ELSE headerLine(ReadSlice(dd, NUL))

-----------------------------------------------------------------------------
(* parseGitUnixTs and DecodeCommit. A slice expression or an index out of   *)
(* range is a run-time panic of the Go program: the operators report it as  *)
(* err = "panic", which is not a returned error. An upper slice bound is    *)
(* checked against the capacity of the slice (here the rest of the bufio    *)
(* buffer), so timestamp[sepIndex+2 : sepIndex+4] may reach past the end of *)
(* timestamp: the byte right behind it is the line feed ReadSlice found.    *)

\* an offset computed without the sign
tsMinsUnsigned(timestamp, sepIndex, sign, sec, hours, mins) ==
    IF mins.err # "nil" THEN [t |-> ZeroTime, err |-> mins.err]
    ELSE [t |-> [sec |-> sec,
                 offset |-> hours * 3600 + mins.v * 60,
                 zone |-> Slice(timestamp, sepIndex + 1, Len(timestamp)),
                 isZero |-> FALSE],
          err |-> "nil"]

\* parseGitUnixTs, lines 391-397: the minutes, the zone and the time
tsMins(timestamp, sepIndex, sign, sec, hours, mins) ==
    IF mins.err # "nil" THEN [t |-> ZeroTime, err |-> mins.err]
    ELSE [t |-> [sec |-> sec,
                 offset |-> sign * (hours * 3600 + mins.v * 60),
                 zone |-> Slice(timestamp, sepIndex + 1, Len(timestamp)),
                 isZero |-> FALSE],
          err |-> "nil"]

\* parseGitUnixTs, lines 383-391: the seconds and the hours
tsFields(timestamp, sepIndex, sign, sec, hours) ==
    IF sec.err # "nil" THEN [t |-> ZeroTime, err |-> sec.err]
    ELSE IF hours.err # "nil" THEN [t |-> ZeroTime, err |-> hours.err]
    ELSE IF sepIndex + 4 > Len(timestamp) THEN [t |-> ZeroTime, err |-> "panic"]
    ELSE tsMins(timestamp, sepIndex, sign, sec.v, hours.v,
                bytesToInt(Slice(timestamp, sepIndex + 4, Len(timestamp))))

\* parseGitUnixTs, lines 376-387, with sepIndex the index of the space
tsAt(timestamp, sepIndex) ==
    IF sepIndex + 1 >= Len(timestamp) \/ sepIndex < 0
    THEN [t |-> ZeroTime, err |-> "panic"]
    ELSE tsFields(timestamp, sepIndex,
                  IF timestamp[sepIndex + 2] = "-" THEN -1 ELSE 1,
                  bytesToInt64(Slice(timestamp, 0, sepIndex)),
                  bytesToInt(IF sepIndex + 4 <= Len(timestamp)
                             THEN Slice(timestamp, sepIndex + 2, sepIndex + 4)
                             ELSE Slice(timestamp, sepIndex + 2, Len(timestamp)) \o <<LF>>))

parseGitUnixTs(timestamp) == tsAt(timestamp, Index(timestamp, SP))

\* DecodeCommit, lines 230-238: the Signature of name, email and timestamp
signature(name, email, timestamp) ==
    IF timestamp.err = "panic" THEN [sig |-> ZeroSignature, err |-> "panic"]
    ELSE IF timestamp.err # "nil" THEN [sig |-> ZeroSignature, err |-> "ErrTime"]
    ELSE [sig |-> [Name |-> name, Email |-> email, Time |-> timestamp.t], err |-> "nil"]

\* DecodeCommit, lines 227-229: the three slices of value
signatureAt(value, emailStartIndex, emailEndIndex) ==
    IF emailStartIndex + 1 > emailEndIndex          \* value[start+1 : end]
       \/ emailStartIndex - 1 < 0                   \* value[:start-1]
       \/ emailEndIndex + 2 > Len(value)            \* value[end+2:]
    THEN [sig |-> ZeroSignature, err |-> "panic"]
    ELSE signature(Slice(value, 0, emailStartIndex - 1),
                   Slice(value, emailStartIndex + 1, emailEndIndex),
                   parseGitUnixTs(Slice(value, emailEndIndex + 2, Len(value))))

\* the author/committer case of DecodeCommit's switch, lines 224-229
parseSignature(value) == signatureAt(value, Index(value, LT), Index(value, GT))

RECURSIVE decodeLines(_, _)

\* DecodeCommit, lines 240-244: s is the parsed signature of an author or
\* committer line
assignSignature(dd, commit, header, s) ==
    IF s.err # "nil" THEN [commit |-> ZeroCommit, err |-> s.err, d |-> dd]
    ELSE IF HasPrefix(header, bAuthor)
    THEN decodeLines(dd, [commit EXCEPT !.Author = s.sig])
    ELSE decodeLines(dd, [commit EXCEPT !.Committer = s.sig])

\* a switch that puts each parent in front of the ones read before
assignHeaderPrepend(dd, commit, header, value) ==
    IF header = bTree
    THEN decodeLines(dd, [commit EXCEPT !.Tree = value])
    ELSE IF header = bParent
    THEN decodeLines(dd, [commit EXCEPT !.Parents = <<value>> \o @])
    ELSE IF header = bAuthor \/ header = bCommitter
    THEN assignSignature(dd, commit, header, parseSignature(value))
    ELSE decodeLines(dd, commit)

\* a switch that takes a key for tree or parent when it starts like one
assignHeaderByPrefix(dd, commit, header, value) ==
    IF HasPrefix(header, bTree)
    THEN decodeLines(dd, [commit EXCEPT !.Tree = value])
    ELSE IF HasPrefix(header, bParent)
    THEN decodeLines(dd, [commit EXCEPT !.Parents = Append(@, value)])
    ELSE IF header = bAuthor \/ header = bCommitter
    THEN assignSignature(dd, commit, header, parseSignature(value))
    ELSE decodeLines(dd, commit)

\* DecodeCommit, lines 217-245: the switch on the header of a line
assignHeader(dd, commit, header, value) ==
    IF header = bTree
    THEN decodeLines(dd, [commit EXCEPT !.Tree = value])
    ELSE IF header = bParent
    THEN decodeLines(dd, [commit EXCEPT !.Parents = Append(@, value)])
    ELSE IF header = bAuthor \/ header = bCommitter
    THEN assignSignature(dd, commit, header, parseSignature(value))
    ELSE decodeLines(dd, commit)

\* DecodeCommit, lines 208-217: a line without its line feed
decodeLine(dd, commit, lineBytes, sepIndex) ==
    IF Len(lineBytes) = 0 THEN [commit |-> commit, err |-> "nil", d |-> dd]
    ELSE IF sepIndex = -1 THEN [commit |-> ZeroCommit, err |-> "ErrSeparator", d |-> dd]
    ELSE assignHeader(dd, commit, Slice(lineBytes, 0, sepIndex),
                      Slice(lineBytes, sepIndex + 1, Len(lineBytes)))

\* DecodeCommit, lines 199-207: rs is what ReadSlice('\n') returned; at
\* io.EOF the loop ends and the bytes read are dropped
decodeRead(rs, commit) ==
    IF rs.err = "EOF" THEN [commit |-> commit, err |-> "nil", d |-> rs.d]
    ELSE IF rs.err # "nil" THEN [commit |-> ZeroCommit, err |-> rs.err, d |-> rs.d]
    ELSE decodeLine(rs.d, commit, Slice(rs.line, 0, Len(rs.line) - 1),
                    Index(Slice(rs.line, 0, Len(rs.line) - 1), SP))

\* the for loop of DecodeCommit: header lines up to the blank line or io.EOF
decodeLines(dd, commit) == decodeRead(ReadSlice(dd, LF), commit)

\* DecodeCommit, lines 248-253: message is what io.ReadAll returned
decodeMessage(commit, message) ==
    IF message.err # "nil"
    THEN [commit |-> ZeroCommit, err |-> message.err, d |-> message.d]
    ELSE [commit |-> [commit EXCEPT !.Message = TrimSuffixLF(message.data)],
          err |-> "nil", d |-> message.d]

\* DecodeCommit after its loop
decodeRest(lines) ==
    IF lines.err # "nil" THEN lines ELSE decodeMessage(lines.commit, ReadAll(lines.d))

\* a DecodeCommit that starts from Commit{} instead of Commit{Hash: hash}
DecodeCommitNoHash(dd, hash) == decodeRest(decodeLines(dd, ZeroCommit))

\* Decoder.DecodeCommit
DecodeCommit(dd, hash) == decodeRest(decodeLines(dd, [ZeroCommit EXCEPT !.Hash = hash]))

-----------------------------------------------------------------------------
(* Objects on disk. An object is described by its fields and written out    *)
(* in the loose object format "<kind> <size>\x00<payload>", the commit      *)
(* payload line by line as git writes it; createCompressedBuffer of the     *)
(* tests compresses such a content into one zlib stream.                    *)

RECURSIVE Itoa(_)
Itoa(n) == IF n < 10 THEN <<Digits[n + 1]>> ELSE Itoa(n \div 10) \o <<Digits[(n % 10) + 1]>>

RECURSIVE ParentLines(_)
ParentLines(ps) ==
    IF ps = <<>> THEN <<>>
    ELSE bParent \o <<SP>> \o Head(ps) \o <<LF>> \o ParentLines(Tail(ps))

CommitPayload(o) ==
    bTree \o <<SP>> \o o.tree \o <<LF>>
    \o ParentLines(o.parents)
    \o bAuthor \o <<SP>> \o o.author \o <<LF>>
    \o bCommitter \o <<SP>> \o o.committer \o <<LF>>
    \o <<LF>> \o o.msg

\* o.raw: the payload is o.msg as it stands, not a commit written out
Payload(o) == IF o.raw THEN o.msg ELSE CommitPayload(o)

\* the size the header declares: the length of the payload, unless the
\* object carries a size field with the digits its header holds
DeclaredSize(o) == IF "size" \in DOMAIN o THEN o.size ELSE Itoa(Len(Payload(o)))

\* the decompressed content: header, payload of the declared size, and
\* whatever bytes (o.extra) follow the payload in the stream
Content(o) == o.kind \o <<SP>> \o DeclaredSize(o) \o <<NUL>> \o Payload(o) \o o.extra

\* compress/flate hands out what it has decompressed when the stream ends or
\* its 32 KiB window is full, and bufio reads up to 4096 bytes at once: an
\* object shorter than that reaches the buffer in one piece
Chunks(o) == <<Content(o)>>

createCompressedBuffer(o) == [hdr |-> o.hdr, chunks |-> Chunks(o), end |-> o.end]

SigOk == <<"A", SP, LT, "a", GT, SP, "1", "2", SP, "+", "0", "1", "0", "0">>
SigOther == <<"B", SP, LT, "b", GT, SP, "3", "4", SP, "-", "0", "7", "3", "0">>
SigNoLt == <<"A", SP, "a", GT, SP, "1", "2", SP, "+", "0", "1", "0", "0">>
SigNoGt == <<"A", SP, LT, "a", SP, "1", "2", SP, "+", "0", "1", "0", "0">>
SigSwapped == <<"A", SP, GT, "a", LT, SP, "1", "2", SP, "+", "0", "1", "0", "0">>
SigBadTime == <<"A", SP, LT, "a", GT, SP, "1", "x", SP, "+", "0", "1", "0", "0">>

MalformedSigs == {SigNoLt, SigNoGt, SigSwapped}

hA == <<"a", "1">>
hB == <<"b", "2">>
hC == <<"c", "3">>
hD == <<"d", "4">>
hT == <<"e", "5">>
hX == <<"f", "6">>

Hashes == {hA, hB, hC, hD, hT, hX}

\* a well-formed commit with the given tree, parents and message
Commit(tree, parents, msg) ==
    [kind |-> bCommit, tree |-> tree, parents |-> parents, author |-> SigOk,
     committer |-> SigOther, msg |-> msg, raw |-> FALSE, extra |-> <<>>,
     hdr |-> "nil", end |-> "EOF"]

\* a non-commit object
Blob(kind, data) ==
    [kind |-> kind, tree |-> <<>>, parents |-> <<>>, author |-> <<>>,
     committer |-> <<>>, msg |-> data, raw |-> TRUE, extra |-> <<>>,
     hdr |-> "nil", end |-> "EOF"]

\* the object o under a header that declares the size written in digits
Sized(o, digits) ==
    [f \in DOMAIN o \cup {"size"} |-> IF f = "size" THEN digits ELSE o[f]]

\* a signature line value with the given "<seconds> <offset>" part
Sig(ts) == <<"A", SP, LT, "a", GT, SP>> \o ts

\* the commit object o with line (and its line feed) put in at byte k of
\* its payload
WithLine(o, k, line) ==
    [o EXCEPT !.raw = TRUE,
              !.msg = SubSeq(CommitPayload(o), 1, k) \o line \o <<LF>>
                      \o SubSeq(CommitPayload(o), k + 1, Len(CommitPayload(o)))]

msgHello == <<"H", "i">>
msgTwoLF == <<"H", "i", LF, LF>>
treeT == <<"t", "7">>
treeU == <<"u", "8">>

-----------------------------------------------------------------------------
(* The Decoder under a caller that creates it over one object and then      *)
(* calls Reset, Header and DecodeCommit in any order.                       *)

MaxCalls == 3
MaxResets == 2

oPlain == Commit(treeT, <<hB>>, msgHello)
oMerge == Commit(treeU, <<hB, hC>>, msgTwoLF)
oRoot == Commit(treeT, <<>>, <<>>)

\* "commit 0\x00": a header and no payload, as in TestHeaderScanning
oEmpty == Blob(bCommit, <<>>)
oTree == Blob(bTree, <<"x", "y">>)
oUnknown == Blob(<<"b", "a", "d">>, <<"x">>)
oBlob == Blob(bBlob, <<"t", "r", "e", "e", SP, "x", LF>>)
oTag == Blob(bTag, <<"o", "b", "j", "e", "c", "t", SP, "b", "2", LF, LF, "v", "1", LF>>)

\* "tree 0\x00": the empty tree
oEmptyTree == Blob(bTree, <<>>)

\* oPlain followed in the stream by two bytes the declared size does not cover
oExtra == [oPlain EXCEPT !.extra = <<"X", "Y">>]

oNoLt == [oPlain EXCEPT !.author = SigNoLt]
oNoGt == [oPlain EXCEPT !.committer = SigNoGt]
oSwapped == [oMerge EXCEPT !.author = SigSwapped]
oBadTime == [oPlain EXCEPT !.author = SigBadTime]
oNotZlib == [oPlain EXCEPT !.hdr = "ErrHeader"]
oChecksum == [oMerge EXCEPT !.end = "ErrChecksum"]

Objects ==
    {oPlain, oMerge, oRoot, oEmpty, oTree, oUnknown, oExtra,
     oNoLt, oNoGt, oSwapped, oBadTime, oNotZlib, oChecksum}

\* the objects the caller resets the decoder onto
ResetObjects == {oPlain, oMerge, oEmpty, oTree, oExtra, oNotZlib}

Call(op, err, hdr, commit) == [op |-> op, err |-> err, hdr |-> hdr, commit |-> commit]

InitDecoder ==
    /\ dsrc \in Objects
    /\ dec = NewDecoder(createCompressedBuffer(dsrc)).d
    /\ res = Call("NewDecoder", NewDecoder(createCompressedBuffer(dsrc)).err,
                  ZeroHeader, ZeroCommit)
    /\ cycle = <<res>>
    /\ prevBuf = <<>>
    /\ resets = 0

\* the caller holds a usable decoder and the program has not panicked
Usable == cycle[1].op # "NewDecoder" \/ cycle[1].err = "nil"

CallReset(o) ==
    /\ Usable
    /\ res.err # "panic"
    /\ resets < MaxResets
    /\ LET r == Reset(dec, createCompressedBuffer(o)) IN
       /\ dec' = r.d
       /\ res' = Call("Reset", r.err, ZeroHeader, ZeroCommit)
    /\ dsrc' = o
    /\ cycle' = <<res'>>
    /\ prevBuf' = dec.br
    /\ resets' = resets + 1

CallHeader ==
    /\ Usable
    /\ res.err # "panic"
    /\ Len(cycle) <= MaxCalls
    /\ LET r == Header(dec) IN
       /\ dec' = r.d
       /\ res' = Call("Header", r.err, r.hdr, ZeroCommit)
    /\ cycle' = Append(cycle, res')
    /\ UNCHANGED <<dsrc, prevBuf, resets>>

CallDecodeCommit(hash) ==
    /\ Usable
    /\ res.err # "panic"
    /\ Len(cycle) <= MaxCalls
    /\ LET r == DecodeCommit(dec, hash) IN
       /\ dec' = r.d
       /\ res' = Call("DecodeCommit", r.err, ZeroHeader, r.commit)
    /\ cycle' = Append(cycle, res')
    /\ UNCHANGED <<dsrc, prevBuf, resets>>

IdleHistory ==
    /\ repo = <<>>
    /\ pc = "idle"
    /\ d = NilDecoder
    /\ graph = <<>>
    /\ stack = <<>>
    /\ curr = <<>>
    /\ ret = <<>>
    /\ closes = 0
    /\ decodes = <<>>

(* The objects Header and DecodeCommit are run on to settle what they      *)
(* parse: headers of every kind and of several sizes, kind tokens git does  *)
(* not know, commits with zero to three parents, messages with and without  *)
(* trailing white space, header lines with keys DecodeCommit does not know, *)
(* and signatures with timestamps of every shape.                           *)

\* "commit 262\x00" as in TestHeaderScanning, and more declared sizes
oSized262 == Sized(oEmpty, <<"2", "6", "2">>)
oSized007 == Sized(oTree, <<"0", "0", "7">>)
oSized4052 == Sized(oBlob, <<"4", "0", "5", "2">>)
oSized10 == Sized(oTag, <<"1", "0">>)

KindObjects ==
    {oPlain, oMerge, oRoot, oEmpty, oTree, oBlob, oTag, oEmptyTree,
     oSized262, oSized007, oSized4052, oSized10}

\* kind tokens that are none of commit, tree, blob, tag
tCommits == <<"c", "o", "m", "m", "i", "t", "s">>
tTreeX == <<"t", "r", "e", "e", "X">>
tUpper == <<"C", "o", "m", "m", "i", "t">>
tTa == <<"t", "a">>

UnknownTokens == {tCommits, tTreeX, tUpper, tTa, <<"b", "a", "d">>, <<>>}

TokenObjects == {Blob(tok, <<"x">>) : tok \in UnknownTokens}

oOctopus == Commit(treeU, <<hC, hB, hD>>, msgHello)

msgLF == <<"H", "i", LF>>
msgSpaceLF == <<"H", "i", SP, LF>>
msgPara == <<"a", LF, LF, "b", SP, SP>>
msgOnlyLF == <<LF>>
msgLFSpace == <<"H", "i", LF, SP>>

Messages == {<<>>, msgHello, msgTwoLF, msgLF, msgSpaceLF, msgPara, msgOnlyLF, msgLFSpace}

MessageObjects == {Commit(treeT, <<hB>>, m) : m \in Messages}

\* header lines whose key is none of tree, parent, author, committer
lEncoding == <<"e", "n", "c", SP, "u", "8">>
lAuthors == bAuthor \o <<"s", SP, "x">>
lUpperTree == <<"T", "r", "e", "e", SP, "z", "9">>
lContinued == <<SP, "s", "i", "g">>
lParents == bParent \o <<"s", SP, "d", "4">>

UnknownLines == {lEncoding, lAuthors, lUpperTree, lContinued, lParents}

\* the places a line is put in: before the tree line, behind it, and behind
\* the committer line
LinePlaces(o) ==
    {0, Len(bTree) + 1 + Len(o.tree) + 1, Len(CommitPayload(o)) - Len(o.msg) - 1}

LineObjects == {WithLine(oMerge, k, l) : k \in LinePlaces(oMerge), l \in UnknownLines}

\* timestamps: two fields as git writes them, one field, three fields, and
\* offsets that are not a sign and four digits
tsPlus == <<"1", "2", SP, "+", "0", "1", "0", "0">>
tsMinus == <<"3", "4", SP, "-", "0", "7", "3", "0">>
tsOneField == <<"1", "2">>
tsOneLong == <<"1", "2", "+", "0", "1", "0", "0">>
tsNone == <<>>
tsThree == <<"1", "2", SP, "+", "0", "1", "0", "0", SP, "x">>
tsThreeDigits == <<"1", "2", SP, "3", "4", SP, "+", "0", "1", "0", "0">>
tsThreeEnd == <<"1", "2", SP, "+", "0", "1", "0", "0", SP, "7">>
tsOffset4 == <<"1", "2", SP, "+", "0", "0", "0">>
tsOffset6 == <<"1", "2", SP, "+", "0", "0", "0", "0", "0">>
tsOffset3 == <<"1", "2", SP, "+", "0", "1">>
tsOffset2 == <<"1", "2", SP, "+", "0">>
tsOffset1 == <<"1", "2", SP, "+">>
tsNoSign == <<"1", "2", SP, "0", "0", "1", "0", "0">>
tsBadDigit == <<"1", "2", SP, "+", "0", "1", "x", "0">>

Timestamps ==
    {tsPlus, tsMinus, tsOneField, tsOneLong, tsNone, tsThree, tsThreeDigits, tsThreeEnd,
     tsOffset4, tsOffset6, tsOffset3, tsOffset2, tsOffset1, tsNoSign, tsBadDigit}

\* a commit whose author (or committer) line carries the timestamp ts
oAuthorTs(ts) == [oPlain EXCEPT !.author = Sig(ts)]
oCommitterTs(ts) == [oRoot EXCEPT !.committer = Sig(ts)]

TimestampObjects == {oAuthorTs(ts) : ts \in Timestamps} \cup {oCommitterTs(ts) : ts \in Timestamps}

\* valid timestamps: seconds and offsets, among them those of the examples
\* "1703123456 +0000" and "1703123456 -0700"
SecFields == {<<"0">>, <<"1", "7", "0", "3", "1", "2", "3", "4", "5", "6">>}

OffsetFields ==
    {<<"+", "0", "0", "0", "0">>, <<"-", "0", "7", "0", "0">>, <<"+", "0", "5", "3", "0">>,
     <<"-", "1", "4", "5", "9">>}

\* a commit of an author at sec with the offset off and a committer at the
\* same sec with the offset +0000
oInstant(sec, off) ==
    [oPlain EXCEPT !.author = Sig(sec \o <<SP>> \o off),
                   !.committer = Sig(sec \o <<SP, "+", "0", "0", "0", "0">>)]

InstantObjects == {oInstant(sec, off) : sec \in SecFields, off \in OffsetFields}

\* header lines that hold no space
lBad == <<"b", "a", "d">>
lTreeOnly == bTree

NoSeparatorLines == {lBad, lTreeOnly}

NoSeparatorObjects ==
    {WithLine(oMerge, k, l) : k \in LinePlaces(oMerge), l \in NoSeparatorLines}

\* a commit whose payload holds, behind a line without a space, bytes that
\* read like an object header
oHeaderInside == Blob(bCommit, lBad \o <<LF>> \o bTree \o <<SP, "5", NUL, "r", "e", "s", "t">>)

\* commit payloads that end without the blank line: behind the line feed of
\* the last header line, inside the last header line, and with a stream
\* that ends in a checksum error
pTreeParent == bTree \o <<SP>> \o treeT \o <<LF>> \o bParent \o <<SP>> \o hB
oNoBlank == Blob(bCommit, pTreeParent \o <<LF>>)
oUnterminated == Blob(bCommit, pTreeParent)
oOnlyTree == Blob(bCommit, bTree \o <<SP>> \o treeT)
oTwoParents == Blob(bCommit, pTreeParent \o <<LF>> \o bParent \o <<SP>> \o hC)
oNoBlankChecksum == [oNoBlank EXCEPT !.end = "ErrChecksum"]

EndObjects == {oNoBlank, oUnterminated, oOnlyTree, oTwoParents, oNoBlankChecksum}

\* a commit whose payload ends in a line that holds no space and no line feed
oNoSeparatorAtEnd == Blob(bCommit, bTree \o <<SP>> \o treeT \o <<LF>> \o lBad)

ParseObjects ==
    KindObjects \cup TokenObjects \cup {oOctopus} \cup MessageObjects \cup LineObjects
    \cup TimestampObjects \cup InstantObjects \cup NoSeparatorObjects
    \cup {oHeaderInside, oNoSeparatorAtEnd} \cup EndObjects

InitParse ==
    /\ dsrc \in ParseObjects
    /\ dec = NewDecoder(createCompressedBuffer(dsrc)).d
    /\ res = Call("NewDecoder", NewDecoder(createCompressedBuffer(dsrc)).err,
                  ZeroHeader, ZeroCommit)
    /\ cycle = <<res>>
    /\ prevBuf = <<>>
    /\ resets = 0

IdleScanner ==
    /\ hs = NilDecoder
    /\ hobj = <<>>
    /\ payloads = <<>>
    /\ hlog = <<>>

\* a nil error of the os/exec package
NilError == [how |-> "nil", status |-> 0]

IdleShell ==
    /\ gitrun = NilError
    /\ spc = "idle"
    /\ serr = NilError
    /\ code = <<>>
    /\ isdirty = [dirty |-> FALSE, err |-> NilError]
    /\ printed = <<>>

Init == InitDecoder /\ IdleHistory /\ IdleScanner /\ IdleShell

Next ==
    \/ \E o \in ResetObjects : CallReset(o) /\ UNCHANGED <<histVars, scanVars, shellVars>>
    \/ CallHeader /\ UNCHANGED <<histVars, scanVars, shellVars>>
    \/ \E hash \in {hA, hX} : CallDecodeCommit(hash) /\ UNCHANGED <<histVars, scanVars, shellVars>>

Spec == Init /\ [][Next]_vars

-----------------------------------------------------------------------------
(* Claims about the Decoder, checked under Spec.                            *)

Last == cycle[Len(cycle)]

\* the calls made before the last one on the current source
Earlier == {cycle[i] : i \in 2..(Len(cycle) - 1)}

Fresh(o) == NewDecoder(createCompressedBuffer(o)).d

\* io.LimitReader(br, n) of HeaderScanner.Scan: the stream cut after n bytes
LimitReader(dd, n) ==
    LET all == dd.br \o Flatten(dd.zr.chunks) IN
    [zr |-> [chunks |-> <<>>, end |-> "EOF"],
     br |-> IF n < Len(all) THEN Slice(all, 0, n) ELSE all]

\* a commit object in the wire format: valid zlib stream, payload of the
\* declared size, well-formed signatures
ValidCommitObject(o) ==
    /\ o.kind = bCommit /\ ~o.raw
    /\ o.hdr = "nil" /\ o.end = "EOF" /\ o.extra = <<>>
    /\ o.author \in {SigOk, SigOther} /\ o.committer \in {SigOk, SigOther}

\* C3: a second Header() without an intervening Reset fails with ErrNotReset,
\* for every object, also one with an empty payload. Stated for a first
\* Header() that succeeded.
C3_SecondHeaderIsErrNotReset ==
    (/\ Len(cycle) >= 3
     /\ Last.op = "Header"
     /\ \E c \in Earlier : c.op = "Header" /\ c.err = "nil")
    => Last.err = "ErrNotReset"

\* C4: a second DecodeCommit without an intervening Reset fails with
\* ErrNotReset and never returns a Commit with a nil error. Stated for a
\* valid commit object whose first DecodeCommit succeeded.
C4_SecondDecodeCommitIsErrNotReset ==
    (/\ Len(cycle) >= 3
     /\ ValidCommitObject(dsrc)
     /\ Last.op = "DecodeCommit"
     /\ \E c \in Earlier : c.op = "DecodeCommit" /\ c.err = "nil")
    => Last.err = "ErrNotReset"

\* what a caller sees of a decoder in state dd: Header() then
\* DecodeCommit(hash), and DecodeCommit(hash) alone
Observed(dd, hash) ==
    LET h == Header(dd)
        c == DecodeCommit(h.d, hash)
        h2 == Header(c.d)
        direct == DecodeCommit(dd, hash)
    IN  <<h.hdr, h.err, c.commit, c.err, h2.err, direct.commit, direct.err>>

\* C5: after a successful Reset(src), whatever was called before, Header()
\* and DecodeCommit(hash) return what a freshly created decoder over src
\* returns.
C5_ResetIsFresh ==
    (Last.op = "Reset" /\ Last.err = "nil")
    => \A hash \in {hA, hX} : Observed(dec, hash) = Observed(Fresh(dsrc), hash)

\* C5 witness: the decoder was reset onto a commit while bytes of the
\* previous object were still buffered, and decodes the new object
C5_Witness ==
    /\ Last.op = "Reset" /\ Last.err = "nil"
    /\ prevBuf # <<>>
    /\ resets = 2
    /\ ValidCommitObject(dsrc)
    /\ DecodeCommit(Header(dec).d, hA).err = "nil"
    /\ DecodeCommit(Header(dec).d, hA).commit.Parents = dsrc.parents

\* C6: on a valid commit object DecodeCommit(hash) right after NewDecoder or
\* Reset succeeds and returns the Commit that Header() followed by
\* DecodeCommit(hash) returns.
C6_DirectDecodeEqualsHeaderFirst ==
    (/\ Len(cycle) = 2
     /\ cycle[1].err = "nil"
     /\ Last.op = "DecodeCommit"
     /\ ValidCommitObject(dsrc))
    => /\ Last.err = "nil"
       /\ Last.commit = DecodeCommit(Header(Fresh(dsrc)).d, Last.commit.Hash).commit

\* C7: after a header declaring size N, the decoded Commit holds nothing of
\* the stream beyond the first N payload bytes: it is the Commit decoded from
\* the payload cut after N bytes.
C7_DecodeStaysWithinSize ==
    (/\ Len(cycle) = 3
     /\ cycle[1].err = "nil"
     /\ cycle[2].op = "Header" /\ cycle[2].err = "nil"
     /\ Last.op = "DecodeCommit" /\ Last.err = "nil")
    => LET h == Header(Fresh(dsrc)) IN
       Last.commit = DecodeCommit(LimitReader(h.d, h.hdr.Size), Last.commit.Hash).commit

-----------------------------------------------------------------------------
(* GetHistoryFor(branch), one call. The repository is the environment the   *)
(* call reads: env is the outcome of FindGitDir and of reading the branch   *)
(* ref ("ok" or the error), head the hash the ref holds, objs the loose     *)
(* objects by hash (a hash outside its domain has no file).                 *)

ZeroHistory == [Head |-> ZeroCommit, Graph |-> <<>>]

\* os.Open on a missing file yields a nil *os.File, whose Read fails
NilFile == [hdr |-> "ErrInvalid", chunks |-> <<>>, end |-> "ErrInvalid"]

Open(r, hash) ==
    IF hash \in DOMAIN r.objs THEN createCompressedBuffer(r.objs[hash]) ELSE NilFile

\* an error return that hands out the graph built so far
returnErrWithGraph(g, err) == [hist |-> g, err |-> err]

\* return BranchHistory{}, err
returnErr(g, err) == [hist |-> ZeroHistory, err |-> err]

\* the parents pushed when only a commit's first parent is followed
unresolvedFirstOnly(g, parents) ==
    IF parents # <<>> /\ Head(parents) \notin DOMAIN g.Graph
    THEN <<Head(parents)>> ELSE <<>>

\* a loop that pushes every parent, resolved or not
unresolvedAll(g, parents) == parents

\* the parents the loop pushes: those without an entry in graph.Graph
unresolved(g, parents) == SelectSeq(parents, LAMBDA p : p \notin DOMAIN g.Graph)

\* a return that leaves the decoder open
CloseSkipped(n) == n

\* defer d.Close() (line 318), run when GetHistoryFor returns or panics: n is
\* the number of Close calls made on the decoder so far
Close(n) == n + 1

\* lines 298-318: locate the repository and the head, create the Decoder
GHStart ==
    /\ pc = "start"
    /\ IF repo.env # "ok"
       THEN /\ ret' = returnErr(graph, repo.env)
            /\ pc' = "done"
            /\ d' = d
       ELSE IF Len(repo.head) < 2
       THEN pc' = "panicked" /\ UNCHANGED <<ret, d>>
       ELSE LET nd == NewDecoder(Open(repo, repo.head)) IN
            IF nd.err # "nil"
            THEN /\ ret' = returnErr(graph, nd.err)
                 /\ pc' = "done"
                 /\ d' = d
            ELSE /\ d' = nd.d
                 /\ pc' = "header"
                 /\ ret' = ret
    /\ UNCHANGED <<repo, graph, stack, curr, closes, decodes>>

\* lines 320-327: the head's header; the deferred d.Close() runs on return
GHHeader ==
    /\ pc = "header"
    /\ LET h == Header(d) IN
       /\ d' = h.d
       /\ IF h.err # "nil"
          THEN ret' = returnErr(graph, h.err) /\ pc' = "done" /\ closes' = Close(closes)
          ELSE IF h.hdr.Kind # CommitObject
          THEN ret' = returnErr(graph, "ErrNotACommit") /\ pc' = "done" /\ closes' = Close(closes)
          ELSE pc' = "decode" /\ UNCHANGED <<ret, closes>>
    /\ UNCHANGED <<repo, graph, stack, curr, decodes>>

\* lines 329-335: decode the head, seed the graph and the stack
GHDecodeHead ==
    /\ pc = "decode"
    /\ decodes' = [decodes EXCEPT ![repo.head] = @ + 1]
    /\ LET c == DecodeCommit(d, repo.head) IN
       /\ d' = c.d
       /\ IF c.err = "panic"
          THEN pc' = "panicked" /\ closes' = Close(closes) /\ UNCHANGED <<ret, graph, stack>>
          ELSE IF c.err # "nil"
          THEN /\ ret' = returnErr(graph, c.err) /\ pc' = "done" /\ closes' = Close(closes)
               /\ UNCHANGED <<graph, stack>>
          ELSE /\ graph' = [Head |-> c.commit, Graph |-> (repo.head :> c.commit)]
               /\ stack' = c.commit.Parents
               /\ pc' = "loop"
               /\ UNCHANGED <<ret, closes>>
    /\ UNCHANGED <<repo, curr>>

\* lines 336-355 and 370: pop, open, reset the decoder, read the header
GHLoop ==
    /\ pc = "loop"
    /\ IF stack = <<>>
       THEN /\ ret' = [hist |-> graph, err |-> "nil"]
            /\ pc' = "done"
            /\ closes' = Close(closes)
            /\ UNCHANGED <<stack, curr, d>>
       ELSE /\ curr' = stack[Len(stack)]
            /\ stack' = SubSeq(stack, 1, Len(stack) - 1)
            /\ IF Len(curr') < 2
               THEN pc' = "panicked" /\ closes' = Close(closes) /\ UNCHANGED <<ret, d>>
               ELSE IF curr' \notin DOMAIN repo.objs
               THEN /\ ret' = returnErr(graph, "ErrNotExist") /\ pc' = "done"
                    /\ closes' = Close(closes) /\ d' = d
               ELSE LET h == Header(Reset(d, Open(repo, curr')).d) IN
                    /\ d' = h.d
                    /\ IF h.err # "nil"
                       THEN ret' = returnErr(graph, h.err) /\ pc' = "done" /\ closes' = Close(closes)
                       ELSE IF h.hdr.Kind # CommitObject
                       THEN pc' = "loop" /\ UNCHANGED <<ret, closes>>
                       ELSE pc' = "ldecode" /\ UNCHANGED <<ret, closes>>
    /\ UNCHANGED <<repo, graph, decodes>>

\* lines 357-367: decode the commit, insert it, push its unresolved parents
GHLoopDecode ==
    /\ pc = "ldecode"
    /\ decodes' = [decodes EXCEPT ![curr] = @ + 1]
    /\ LET c == DecodeCommit(d, curr) IN
       /\ d' = c.d
       /\ IF c.err = "panic"
          THEN pc' = "panicked" /\ closes' = Close(closes) /\ UNCHANGED <<ret, graph, stack>>
          ELSE IF c.err # "nil"
          THEN /\ ret' = returnErr(graph, c.err) /\ pc' = "done" /\ closes' = Close(closes)
               /\ UNCHANGED <<graph, stack>>
          ELSE /\ graph' = [graph EXCEPT !.Graph = (curr :> c.commit) @@ @]
               /\ stack' = stack \o unresolved(graph', c.commit.Parents)
               /\ pc' = "loop"
               /\ UNCHANGED <<ret, closes>>
    /\ UNCHANGED <<repo, curr>>

-----------------------------------------------------------------------------
(* Repositories GetHistoryFor is run on.                                    *)

Repo(head, objs) == [env |-> "ok", head |-> head, objs |-> objs]

cRoot == Commit(treeT, <<>>, msgHello)

\* A -> B -> C
rLinear ==
    Repo(hA, hA :> Commit(treeT, <<hB>>, msgHello) @@ hB :> Commit(treeU, <<hC>>, msgTwoLF)
             @@ hC :> cRoot)

\* A merges B and C, which share the ancestors D -> X
rDiamond ==
    Repo(hA, hA :> Commit(treeT, <<hB, hC>>, msgHello) @@ hB :> Commit(treeU, <<hD>>, <<>>)
             @@ hC :> Commit(treeT, <<hD>>, msgTwoLF) @@ hD :> Commit(treeU, <<hX>>, msgHello)
             @@ hX :> cRoot)

\* A merges C and B, and C is also the parent of B
rShortcut ==
    Repo(hA, hA :> Commit(treeT, <<hC, hB>>, msgHello) @@ hB :> Commit(treeU, <<hC>>, <<>>)
             @@ hC :> cRoot)

\* A names B twice as its parent
rTwice == Repo(hA, hA :> Commit(treeT, <<hB, hB>>, msgHello) @@ hB :> cRoot)

\* A is its own parent; B and C are each other's parent
rSelf == Repo(hA, hA :> Commit(treeT, <<hA>>, msgHello))
rCycle ==
    Repo(hA, hA :> Commit(treeT, <<hB>>, msgHello) @@ hB :> Commit(treeU, <<hC>>, <<>>)
             @@ hC :> Commit(treeT, <<hB>>, msgHello))

\* a merge below the head: A -> B, B merges C and D
rDeepMerge ==
    Repo(hA, hA :> Commit(treeT, <<hB>>, msgHello) @@ hB :> Commit(treeU, <<hC, hD>>, <<>>)
             @@ hC :> cRoot @@ hD :> Commit(treeU, <<>>, msgTwoLF))

\* a parent reference to a tree object
rTreeParent ==
    Repo(hA, hA :> Commit(treeT, <<hB, hT>>, msgHello) @@ hB :> cRoot @@ hT :> oTree)

\* a blob and a tag among the parents of a commit below the head, with
\* commits to decode after each of them
rBlobTagParents ==
    Repo(hA, hA :> Commit(treeT, <<hB>>, msgHello) @@ hB :> Commit(treeU, <<hC, hT, hD, hX>>, msgTwoLF)
             @@ hC :> cRoot @@ hT :> oBlob @@ hD :> Commit(treeU, <<>>, <<>>) @@ hX :> oTag)

\* the empty tree as the only parent; a tree as the last object visited
rEmptyTreeParent == Repo(hA, hA :> Commit(treeT, <<hT>>, msgHello) @@ hT :> oEmptyTree)
rTreeLast == Repo(hA, hA :> Commit(treeT, <<hT, hB>>, msgHello) @@ hB :> cRoot @@ hT :> oTree)

\* the head is a tree object, a blob, a tag, the empty tree
rHeadBlob == Repo(hT, hT :> oBlob @@ hB :> cRoot)
rHeadTag == Repo(hX, hX :> oTag @@ hB :> cRoot)
rHeadEmptyTree == Repo(hT, hT :> oEmptyTree)

\* the head is a tree object; the head has no object; a parent has no object
rHeadTree == Repo(hT, hT :> oTree)
rNoHead == Repo(hA, hB :> cRoot)
rNoParent == Repo(hA, hA :> Commit(treeT, <<hB>>, msgHello) @@ hB :> Commit(treeU, <<hC>>, <<>>))

\* malformed signatures: in the head, in a parent, in a grandparent
rHeadNoLt == Repo(hA, hA :> oNoLt @@ hB :> cRoot)
rParentNoGt ==
    Repo(hA, hA :> Commit(treeT, <<hB>>, msgHello) @@ hB :> [cRoot EXCEPT !.committer = SigNoGt])
rDeepSwapped ==
    Repo(hA, hA :> Commit(treeT, <<hB>>, msgHello) @@ hB :> Commit(treeU, <<hC>>, <<>>)
             @@ hC :> [cRoot EXCEPT !.author = SigSwapped])

\* a parse error, a read error, an unknown kind, each after commits were decoded
rBadTime ==
    Repo(hA, hA :> Commit(treeT, <<hB>>, msgHello) @@ hB :> Commit(treeU, <<hC>>, <<>>)
             @@ hC :> [cRoot EXCEPT !.author = SigBadTime])
rChecksum ==
    Repo(hA, hA :> Commit(treeT, <<hB>>, msgHello) @@ hB :> [cRoot EXCEPT !.end = "ErrChecksum"])
rUnknown == Repo(hA, hA :> Commit(treeT, <<hB>>, msgHello) @@ hB :> oUnknown)

\* a parent that is no zlib stream, reached after a commit and after a skipped tree
rNotZlib ==
    Repo(hA, hA :> Commit(treeT, <<hB>>, msgHello) @@ hB :> [cRoot EXCEPT !.hdr = "ErrHeader"])
rNotZlibAfterTree ==
    Repo(hA, hA :> Commit(treeT, <<hB, hT>>, msgHello) @@ hB :> [cRoot EXCEPT !.hdr = "ErrHeader"]
             @@ hT :> oTree)

\* a header line without a space, in the head and in a parent
rHeadNoSeparator ==
    Repo(hA, hA :> WithLine(oPlain, 0, lBad) @@ hB :> cRoot)
rParentNoSeparator ==
    Repo(hA, hA :> Commit(treeT, <<hB>>, msgHello)
             @@ hB :> WithLine(oMerge, Len(CommitPayload(oMerge)) - Len(oMerge.msg) - 1, lTreeOnly))

\* a head shorter than the two characters of an object directory
rShortHead == Repo(<<"a">>, <<"a">> :> cRoot)

\* outside a repository; no such branch
rNotRepo == [rLinear EXCEPT !.env = "ErrNotRepo"]
rNoBranch == [rLinear EXCEPT !.env = "ErrNotExist"]

Repos ==
    {rLinear, rDiamond, rDeepMerge, rShortcut, rTwice, rSelf, rCycle, rTreeParent, rHeadTree,
     rNoHead, rNoParent, rHeadNoLt, rParentNoGt, rDeepSwapped, rBadTime, rChecksum,
     rUnknown, rNotZlib, rNotZlibAfterTree, rShortHead, rNotRepo, rNoBranch,
     rBlobTagParents, rEmptyTreeParent, rTreeLast, rHeadBlob, rHeadTag, rHeadEmptyTree,
     rHeadNoSeparator, rParentNoSeparator}

InitHistory ==
    /\ repo \in Repos
    /\ pc = "start"
    /\ d = NilDecoder
    /\ graph = ZeroHistory
    /\ stack = <<>>
    /\ curr = <<>>
    /\ ret = [hist |-> ZeroHistory, err |-> "nil"]
    /\ closes = 0
    /\ decodes = [h \in Hashes |-> 0]

IdleDecoder ==
    /\ dsrc = oPlain
    /\ dec = NilDecoder
    /\ res = Call("idle", "nil", ZeroHeader, ZeroCommit)
    /\ cycle = <<>>
    /\ prevBuf = <<>>
    /\ resets = 0

InitH == InitHistory /\ IdleDecoder /\ IdleScanner /\ IdleShell

NextH ==
    \/ GHStart /\ UNCHANGED <<decVars, scanVars, shellVars>>
    \/ GHHeader /\ UNCHANGED <<decVars, scanVars, shellVars>>
    \/ GHDecodeHead /\ UNCHANGED <<decVars, scanVars, shellVars>>
    \/ GHLoop /\ UNCHANGED <<decVars, scanVars, shellVars>>
    \/ GHLoopDecode /\ UNCHANGED <<decVars, scanVars, shellVars>>

SpecHistory == InitH /\ [][NextH]_vars

\* GetHistoryFor runs in one goroutine that nothing suspends: as long as it
\* has not returned or panicked it takes its next step. This is weak
\* fairness of NextH, with "NextH is enabled" written as its equivalent
\* "pc is not at an exit": each action is guarded by its pc alone
RunsOn == []<>(pc \in {"done", "panicked"}) \/ []<><<NextH>>_vars

SpecHistoryFair == InitH /\ [][NextH]_vars /\ RunsOn

\* Header and DecodeCommit on the objects of ParseObjects
InitP == InitParse /\ IdleHistory /\ IdleScanner /\ IdleShell

SpecParse == InitP /\ [][Next]_vars

-----------------------------------------------------------------------------
(* Claims about GetHistoryFor, checked under SpecHistory.                   *)

Range(q) == {q[i] : i \in 1..Len(q)}

IsCommit(r, h) == h \in DOMAIN r.objs /\ r.objs[h].kind = bCommit /\ ~r.objs[h].raw

\* the hashes reached from the set S by the parent references of commits
RECURSIVE Ancestry(_, _)
Ancestry(r, S) ==
    LET next == S \cup UNION {Range(r.objs[h].parents) : h \in {x \in S : IsCommit(r, x)}}
    IN  IF next = S THEN S ELSE Ancestry(r, next)

ReachableCommits(r) == {h \in Ancestry(r, {r.head}) : IsCommit(r, h)}

\* a store as git writes it: no commit is its own ancestor or names a parent twice
IsDag(r) ==
    \A h \in DOMAIN r.objs :
        /\ h \notin Ancestry(r, Range(r.objs[h].parents))
        /\ Cardinality(Range(r.objs[h].parents)) = Len(r.objs[h].parents)

\* C1: when GetHistoryFor succeeds, the keys of the returned graph are exactly
\* the commits reachable from the head through parent references.
C1_GraphIsReachableSet ==
    (pc = "done" /\ ret.err = "nil")
    => DOMAIN ret.hist.Graph = ReachableCommits(repo)

\* C1 witness: a history with a merge and a shared ancestor was returned
C1_Witness ==
    /\ pc = "done" /\ ret.err = "nil"
    /\ Cardinality(DOMAIN ret.hist.Graph) >= 5
    /\ \E h \in DOMAIN ret.hist.Graph : Len(ret.hist.Graph[h].Parents) = 2

\* C2: during one GetHistoryFor call every hash is decoded at most once, also
\* when it is reachable through two or more parent paths.
C2_DecodedAtMostOnce ==
    (pc # "idle" /\ IsDag(repo)) => \A h \in Hashes : decodes[h] <= 1

\* C8: whenever GetHistoryFor returns an error, the returned history is the
\* zero value, however many commits had been decoded.
C8_ErrorReturnsZeroHistory ==
    (pc = "done" /\ ret.err # "nil") => ret.hist = ZeroHistory

\* C8 witness: an error was returned after two commits had entered the graph
C8_Witness ==
    /\ pc = "done" /\ ret.err # "nil"
    /\ Cardinality(DOMAIN graph.Graph) >= 2
    /\ decodes[curr] = 1

MalformedSignature(o) ==
    o.kind = bCommit /\ ~o.raw /\ (o.author \in MalformedSigs \/ o.committer \in MalformedSigs)

\* C9: decoding a commit with a malformed author or committer line makes
\* GetHistoryFor return an error and no graph; it is not a crash.
C9_MalformedSignatureIsError ==
    pc # "idle" =>
    \A h \in DOMAIN repo.objs \cap Hashes :
        (MalformedSignature(repo.objs[h]) /\ decodes[h] > 0)
        => (pc = "done" /\ ret.err # "nil" /\ ret.hist = ZeroHistory)

\* C10: no hash on the work stack has an entry in the graph and no hash is on
\* the stack twice.
C10_StackInvariant ==
    (pc # "idle" /\ IsDag(repo)) =>
    \A i \in 1..Len(stack) :
        /\ stack[i] \notin DOMAIN graph.Graph
        /\ \A j \in 1..Len(stack) : stack[j] = stack[i] => j = i

\* an object of one of git's other three kinds, stored as git writes it
NonCommitObject(o) ==
    /\ o.kind \in {bTree, bBlob, bTag} /\ o.raw
    /\ o.hdr = "nil" /\ o.end = "EOF" /\ o.extra = <<>>

NonCommit(r, h) == h \in DOMAIN r.objs /\ NonCommitObject(r.objs[h])

\* a store in which every hash reachable from the head names a well-formed
\* commit or a tree, blob or tag
WellFormedStore(r) ==
    /\ r.env = "ok"
    /\ \A h \in Ancestry(r, {r.head}) :
          /\ h \in Hashes /\ h \in DOMAIN r.objs
          /\ ValidCommitObject(r.objs[h]) \/ NonCommitObject(r.objs[h])

\* the signature and the Commit a well-formed commit object stands for
ExpectedSignature(s) ==
    IF s = SigOk
    THEN [Name |-> <<"A">>, Email |-> <<"a">>,
          Time |-> [sec |-> 12, offset |-> 3600, zone |-> <<"+", "0", "1", "0", "0">>,
                    isZero |-> FALSE]]
    ELSE [Name |-> <<"B">>, Email |-> <<"b">>,
          Time |-> [sec |-> 34, offset |-> 0 - 27000, zone |-> <<"-", "0", "7", "3", "0">>,
                    isZero |-> FALSE]]

WithoutOneLF(m) == IF m # <<>> /\ m[Len(m)] = LF THEN SubSeq(m, 1, Len(m) - 1) ELSE m

ExpectedCommit(o, hash) ==
    [Hash |-> hash, Tree |-> o.tree, Message |-> WithoutOneLF(o.msg),
     Author |-> ExpectedSignature(o.author), Committer |-> ExpectedSignature(o.committer),
     Parents |-> o.parents]

\* C11: a tree, blob or tag reached through a parent reference is skipped:
\* the step that pops it inserts nothing in the graph, pushes nothing, returns
\* nothing and decodes nothing, and the traversal ends without error with
\* every commit of the store decoded correctly and no other key in the graph.
C11_NonCommitParentIsSkipped ==
    /\ [][(pc = "loop" /\ stack # <<>> /\ NonCommit(repo, stack[Len(stack)]))
          => /\ pc' = "loop"
             /\ stack' = SubSeq(stack, 1, Len(stack) - 1)
             /\ graph' = graph /\ ret' = ret /\ decodes' = decodes]_vars
    /\ [](\A h \in DOMAIN repo.objs \cap Hashes : NonCommit(repo, h) => decodes[h] = 0)
    /\ []((pc = "done" /\ WellFormedStore(repo) /\ IsCommit(repo, repo.head))
          => /\ ret.err = "nil"
             /\ DOMAIN ret.hist.Graph = ReachableCommits(repo)
             /\ \A h \in DOMAIN ret.hist.Graph :
                   ret.hist.Graph[h] = ExpectedCommit(repo.objs[h], h))

\* C11 witness: a history was returned whose traversal skipped a blob and a
\* tag, each with its payload unread, and decoded a commit after each
C11_Witness ==
    /\ pc = "done" /\ ret.err = "nil"
    /\ \E h \in Ancestry(repo, {repo.head}) : NonCommit(repo, h) /\ repo.objs[h].kind = bBlob
    /\ \E h \in Ancestry(repo, {repo.head}) : NonCommit(repo, h) /\ repo.objs[h].kind = bTag
    /\ Cardinality(DOMAIN ret.hist.Graph) = 4

\* C12: when the head names a tree, a blob or a tag, GetHistoryFor returns
\* the not-a-commit error and the zero history, and no body is decoded.
C12_HeadNotCommitFails ==
    (pc # "idle" /\ NonCommit(repo, repo.head) /\ repo.env = "ok")
    => /\ pc \in {"start", "header", "done"}
       /\ \A h \in Hashes : decodes[h] = 0
       /\ pc = "done" => (ret.err = "ErrNotACommit" /\ ret.hist = ZeroHistory)

\* C12 witness: the call returned for a head that is a tag
C12_Witness ==
    /\ pc = "done" /\ repo.env = "ok"
    /\ NonCommit(repo, repo.head) /\ repo.objs[repo.head].kind = bTag
    /\ ret.err = "ErrNotACommit"

-----------------------------------------------------------------------------
(* The HeaderScanner of git.go: a bufio.Reader over a plain reader. Scan    *)
(* returns io.LimitReader(hs.br, size): a reader that holds the scanner's   *)
(* own br and the number of bytes it may still take from it. A scanned      *)
(* stream is [kind, size, payload]: the kind token, the declared size as    *)
(* written and the bytes behind the header.                                 *)

MaxScans == 2

\* strings.NewReader("<kind> <size>\x00<payload>")
NewStringReader(o) ==
    [chunks |-> <<o.kind \o <<SP>> \o o.size \o <<NUL>> \o o.payload>>, end |-> "EOF"]

NewHeaderScanner(r) == [zr |-> r, br |-> <<>>]

\* HeaderScanner.Reset: hs.br.Reset(r)
ScannerReset(h, r) == [zr |-> r, br |-> <<>>]

\* strconv.ParseInt(s, 10, 64) for values within 64 bits
ParseInt(s) ==
    LET body == IF s # <<>> /\ s[1] \in {"+", "-"} THEN Tail(s) ELSE s IN
    IF body = <<>> \/ bytesToInt64(body).err # "nil"
    THEN [v |-> 0, err |-> "ErrSyntax"]
    ELSE [v |-> IF s[1] = "-" THEN 0 - bytesToInt64(body).v ELSE bytesToInt64(body).v,
          err |-> "nil"]

\* Scan, lines 283-288: the size, the header and the limited reader
scanSize(h, kind, size) ==
    IF size.err # "nil"
    THEN [hdr |-> [Kind |-> <<>>, Size |-> 0], n |-> 0, err |-> size.err, hs |-> h]
    ELSE [hdr |-> [Kind |-> kind, Size |-> size.v], n |-> size.v, err |-> "nil", hs |-> h]

\* Scan, lines 277-283: rs is what ReadString('\x00') returned
scanSizeStr(rs, kind) ==
    IF rs.err # "nil"
    THEN [hdr |-> [Kind |-> <<>>, Size |-> 0], n |-> 0, err |-> rs.err, hs |-> rs.d]
    ELSE scanSize(rs.d, kind, ParseInt(Slice(rs.line, 0, Len(rs.line) - 1)))

\* Scan, lines 271-277: rs is what ReadString(' ') returned
scanKind(rs) ==
    IF rs.err # "nil"
    THEN [hdr |-> [Kind |-> <<>>, Size |-> 0], n |-> 0, err |-> rs.err, hs |-> rs.d]
    ELSE scanSizeStr(ReadSlice(rs.d, NUL), Slice(rs.line, 0, Len(rs.line) - 1))

\* HeaderScanner.Scan: the header, the limit n of the reader returned, the error
Scan(h) ==
    IF Len(h.br) > 0
    THEN [hdr |-> [Kind |-> <<>>, Size |-> 0], n |-> 0, err |-> "ErrNotReset", hs |-> h]
    ELSE scanKind(ReadSlice(h, SP))

\* io.ReadAll(io.LimitReader(hs.br, n)): up to n bytes of what hs.br holds and
\* its reader still delivers at the time of the read, taken out of hs.br
ReadAllLimited(h, n) ==
    LET all == h.br \o Flatten(h.zr.chunks)
        k == IF n < 0 THEN 0 ELSE IF n < Len(all) THEN n ELSE Len(all)
    IN  IF n <= 0 THEN [data |-> <<>>, hs |-> h]
        ELSE [data |-> Slice(all, 0, k),
              hs |-> [zr |-> [h.zr EXCEPT !.chunks = <<>>], br |-> Slice(all, k, Len(all))]]

Stream(kind, size, payload) == [kind |-> kind, size |-> size, payload |-> payload]

\* the streams of TestBufferOverwrite, and streams whose declared size is the
\* length of their payload
sHello == Stream(bCommit, <<"2", "6", "2">>, <<"H", "e", "l", "l", "o", ",", SP, "w">>)
sWait == Stream(bBlob, <<"4", "0", "5", "2">>, <<"W", "a", "i", "t", ",">>)
sExact == Stream(bTree, <<"2">>, <<"x", "y">>)
sExactBlob == Stream(bBlob, <<"3">>, <<"a", "b", "c">>)
sNoPayload == Stream(bCommit, <<"2", "6", "2">>, <<>>)

Streams == {sHello, sWait, sExact, sExactBlob, sNoPayload}

InitScanner ==
    /\ hobj \in Streams
    /\ hs = NewHeaderScanner(NewStringReader(hobj))
    /\ payloads = <<>>
    /\ hlog = <<"New">>

CallScannerReset(o) ==
    /\ Len(SelectSeq(hlog, LAMBDA c : c = "Reset")) < MaxScans - 1
    /\ hs' = ScannerReset(hs, NewStringReader(o))
    /\ hobj' = o
    /\ hlog' = Append(hlog, "Reset")
    /\ UNCHANGED payloads

CallScan ==
    /\ Len(SelectSeq(hlog, LAMBDA c : c = "Scan" \/ c = "ScanErr")) < MaxScans
    /\ LET s == Scan(hs) IN
       /\ hs' = s.hs
       /\ IF s.err = "nil"
          THEN /\ payloads' = Append(payloads, [obj |-> hobj, hdr |-> s.hdr, n |-> s.n,
                                                data |-> <<>>, read |-> FALSE])
               /\ hlog' = Append(hlog, "Scan")
          ELSE /\ payloads' = payloads
               /\ hlog' = Append(hlog, "ScanErr")
    /\ UNCHANGED hobj

\* io.ReadAll on the i-th payload reader
CallReadAll(i) ==
    /\ ~payloads[i].read
    /\ LET r == ReadAllLimited(hs, payloads[i].n) IN
       /\ hs' = r.hs
       /\ payloads' = [payloads EXCEPT ![i].data = r.data, ![i].read = TRUE,
                                       ![i].n = @ - Len(r.data)]
    /\ hlog' = Append(hlog, "ReadAll")
    /\ UNCHANGED hobj

InitS == InitScanner /\ IdleDecoder /\ IdleHistory /\ IdleShell

NextS ==
    \/ \E o \in Streams : CallScannerReset(o) /\ UNCHANGED <<decVars, histVars, shellVars>>
    \/ CallScan /\ UNCHANGED <<decVars, histVars, shellVars>>
    \/ \E i \in 1..Len(payloads) : CallReadAll(i) /\ UNCHANGED <<decVars, histVars, shellVars>>

SpecScanner == InitS /\ [][NextS]_vars

\* C13: after Scan of A, Reset onto B and a second Scan, reading the reader
\* returned for A yields A's payload bytes and reading the reader returned
\* for B yields B's payload bytes, in whichever order they are read.
C13_ReadersKeepTheirPayload ==
    (Len(payloads) = 2 /\ SelectSeq(hlog, LAMBDA c : c # "ReadAll") = <<"New", "Scan", "Reset", "Scan">>)
    => \A i \in 1..2 : payloads[i].read => payloads[i].data = payloads[i].obj.payload

-----------------------------------------------------------------------------
(* Claims about what Header and DecodeCommit parse, checked under           *)
(* SpecParse.                                                               *)

\* the last call was Header(), right after NewDecoder or a successful Reset
HeaderFirst ==
    Len(cycle) = 2 /\ cycle[1].err = "nil" /\ Last.op = "Header"

\* the last call was DecodeCommit, made right after a successful Header()
DecodedAfterHeader ==
    /\ Len(cycle) = 3 /\ cycle[1].err = "nil"
    /\ cycle[2].op = "Header" /\ cycle[2].err = "nil"
    /\ Last.op = "DecodeCommit"

\* the number a string of decimal digits denotes
RECURSIVE Value(_)
Value(digits) ==
    IF digits = <<>> THEN 0
    ELSE Value(SubSeq(digits, 1, Len(digits) - 1)) * 10 + DigitVal(digits[Len(digits)])

KindNamed(token) ==
    CASE token = bCommit -> CommitObject
      [] token = bTree -> TreeObject
      [] token = bBlob -> BlobObject
      [] token = bTag -> TagObject

C15_UnknownTokenIsError ==
    (HeaderFirst /\ dsrc.kind \notin {bCommit, bTree, bBlob, bTag} /\ dsrc.hdr = "nil")
    => (Last.err = "ErrUnknownObject" /\ Last.hdr = ZeroHeader)

\* a commit object written out as git writes it, whatever its signatures
\* and the end of its stream are
CommitFormat(o) == o.kind = bCommit /\ ~o.raw /\ "size" \notin DOMAIN o

\* C16: the decoded Commit has the parents of the payload's parent lines, as
\* many and in their order, and IsLeaf() holds exactly when there is none.
C16_ParentsInOrder ==
    (DecodedAfterHeader /\ CommitFormat(dsrc))
    => /\ ValidCommitObject(dsrc) => Last.err = "nil"
       /\ Last.err = "nil"
          => /\ Last.commit.Parents = dsrc.parents
             /\ IsLeaf(Last.commit) <=> (Len(dsrc.parents) = 0)

\* C16 witness: a commit with three parents was decoded
C16_Witness ==
    /\ DecodedAfterHeader /\ Last.err = "nil"
    /\ dsrc = oOctopus
    /\ Last.commit.Parents = <<hC, hB, hD>>
    /\ ~IsLeaf(Last.commit)

\* C17: the decoded Message is the payload behind the first blank line
\* without one trailing line feed, if it ends in one; nothing else is
\* removed.
C17_MessageLosesOneLF ==
    (DecodedAfterHeader /\ ValidCommitObject(dsrc))
    => /\ Last.err = "nil"
       /\ Last.commit.Message = WithoutOneLF(dsrc.msg)

\* C17 witness: a message ending in two line feeds was decoded and kept one
C17_Witness ==
    /\ DecodedAfterHeader /\ Last.err = "nil"
    /\ ValidCommitObject(dsrc) /\ dsrc.msg = msgTwoLF
    /\ Last.commit.Message = msgLF

\* C18: a header line whose key is none of tree, parent, author, committer
\* changes nothing: the decode succeeds with the Commit the payload without
\* that line stands for.
C18_UnknownKeyIgnored ==
    DecodedAfterHeader
    => \A k \in LinePlaces(oMerge), l \in UnknownLines :
          dsrc = WithLine(oMerge, k, l)
          => /\ Last.err = "nil"
             /\ Last.commit = ExpectedCommit(oMerge, Last.commit.Hash)

\* C18 witness: a commit with the line "authors x" behind its committer
\* line was decoded
C18_Witness ==
    /\ DecodedAfterHeader /\ Last.err = "nil"
    /\ dsrc = WithLine(oMerge, Len(CommitPayload(oMerge)) - Len(oMerge.msg) - 1, lAuthors)
    /\ Last.commit.Parents = <<hB, hC>>

\* the number of fields of s when it is split at spaces
RECURSIVE FieldCount(_)
FieldCount(s) ==
    IF s = <<>> THEN 0
    ELSE IF Head(s) = SP THEN FieldCount(Tail(s))
    ELSE IF Len(s) = 1 \/ s[2] = SP THEN 1 + FieldCount(Tail(s))
    ELSE FieldCount(Tail(s))

\* the timestamp the author or committer line of o carries
TimestampOf(o) ==
    IF o.author # SigOk THEN Slice(o.author, 6, Len(o.author))
    ELSE Slice(o.committer, 6, Len(o.committer))

\* C19: a timestamp that has not exactly two fields makes the decode return
\* an error: no crash and no Commit with a time.
C19_FieldCountChecked ==
    (DecodedAfterHeader /\ dsrc \in TimestampObjects /\ FieldCount(TimestampOf(dsrc)) # 2)
    => Last.err \notin {"nil", "panic"}

\* the offset field of a timestamp of two fields
OffsetOf(ts) == Slice(ts, Index(ts, SP) + 1, Len(ts))

SignAndFourDigits(off) ==
    /\ Len(off) = 5
    /\ off[1] \in {"+", "-"}
    /\ \A i \in 2..5 : IsDigit(off[i])

\* C20: a timestamp is accepted only when its offset is a sign and four
\* digits; an offset of another length makes the decode return an error.
C20_OffsetIsSignAndFourDigits ==
    (DecodedAfterHeader /\ dsrc \in TimestampObjects /\ FieldCount(TimestampOf(dsrc)) = 2)
    => /\ Last.err = "nil" => SignAndFourDigits(OffsetOf(TimestampOf(dsrc)))
       /\ Len(OffsetOf(TimestampOf(dsrc))) # 5 => Last.err \notin {"nil", "panic"}

\* C21: a valid "<sec> <sign><HH><MM>" is parsed to the instant sec seconds
\* after the epoch with the offset sign*(HH*3600 + MM*60); the same sec with
\* another offset is the same instant.
C21_InstantAndOffset ==
    DecodedAfterHeader
    => \A sec \in SecFields, off \in OffsetFields :
          dsrc = oInstant(sec, off)
          => /\ Last.err = "nil"
             /\ ~Last.commit.Author.Time.isZero
             /\ Last.commit.Author.Time.sec = Value(sec)
             /\ Last.commit.Author.Time.offset =
                   (IF off[1] = "-" THEN 0 - 1 ELSE 1)
                   * (Value(SubSeq(off, 2, 3)) * 3600 + Value(SubSeq(off, 4, 5)) * 60)
             /\ Last.commit.Author.Time.zone = off
             /\ Last.commit.Committer.Time.offset = 0
             /\ Last.commit.Committer.Time.sec = Last.commit.Author.Time.sec

\* C21 witness: "1703123456 -0700" and "1703123456 +0000" were parsed to one
\* instant, the first with an offset of minus seven hours
C21_Witness ==
    /\ DecodedAfterHeader /\ Last.err = "nil"
    /\ dsrc = oInstant(<<"1", "7", "0", "3", "1", "2", "3", "4", "5", "6">>,
                       <<"-", "0", "7", "0", "0">>)
    /\ Last.commit.Author.Time.sec = 1703123456
    /\ Last.commit.Author.Time.offset = 0 - 25200
    /\ Last.commit.Committer.Time.sec = 1703123456

\* a DecodeCommit call was made on the current source before the last call
DecodeCommitCalled == \E c \in Earlier : c.op = "DecodeCommit"

-----------------------------------------------------------------------------
(* Claims about the resources, the errors and the termination of            *)
(* GetHistoryFor, checked under SpecHistory.                                *)

\* GetHistoryFor has returned or panicked
Exited == pc \in {"done", "panicked"}

\* NewDecoder succeeded on the head object, so that defer d.Close() was
\* registered
DecoderCreated ==
    /\ repo.env = "ok" /\ Len(repo.head) >= 2
    /\ NewDecoder(Open(repo, repo.head)).err = "nil"

\* C23: on every exit of GetHistoryFor taken after the Decoder was created
\* Close has been called on it exactly once: never twice, never not at all,
\* and not before the exit.
C23_ClosedExactlyOnce ==
    /\ closes <= 1
    /\ (Exited /\ DecoderCreated) => closes = 1
    /\ ~Exited => closes = 0
    /\ ~DecoderCreated => closes = 0

\* C23 witness: the loop returned the lookup failure of a parent that has no
\* object file, after the head was decoded, and the decoder was closed once
C23_Witness ==
    /\ pc = "done" /\ DecoderCreated
    /\ ret.err = "ErrNotExist" /\ decodes[repo.head] = 1
    /\ closes = 1

\* the object the loop popped last is no zlib stream: Reset onto it failed
ResetFailed ==
    /\ curr \in DOMAIN repo.objs
    /\ repo.objs[curr].hdr # "nil"

\* C24: when the decoder is reset onto an object that is not validly
\* compressed, GetHistoryFor returns that decompression failure and no
\* history; it does not return ErrNotReset in its place.
C24_ResetFailureIsReturned ==
    (pc = "done" /\ ResetFailed)
    => ret = [hist |-> ZeroHistory, err |-> repo.objs[curr].hdr]

RECURSIVE SumOver(_, _)
SumOver(f, S) ==
    IF S = {} THEN 0
    ELSE LET x == CHOOSE y \in S : TRUE IN f[x] + SumOver(f, S \ {x})

\* the number of DecodeCommit calls made so far
DecodeSteps == SumOver(decodes, DOMAIN decodes)

\* the number of parent references the objects of the store hold
ParentReferences(r) == SumOver([h \in DOMAIN r.objs |-> Len(r.objs[h].parents)], DOMAIN r.objs)

\* some commit of the store is its own ancestor
HasCycle(r) == \E h \in DOMAIN r.objs : h \in Ancestry(r, Range(r.objs[h].parents))

\* C25: GetHistoryFor terminates on every finite object store, also one
\* whose parent references hold a self-reference or a cycle, repeat a parent
\* or point to non-commit objects, and it never makes more DecodeCommit calls
\* than one for the head and one for each parent reference of the store.
C25_Terminates ==
    /\ <>Exited
    /\ [](pc # "idle" => DecodeSteps <= 1 + ParentReferences(repo))

\* C25 witness: a history was returned for a store in which a commit is its
\* own ancestor
C25_Witness ==
    /\ pc = "done" /\ ret.err = "nil"
    /\ HasCycle(repo)
    /\ DecodeSteps >= 2

-----------------------------------------------------------------------------
(* Claims about the end of a commit payload, lines without a separator and  *)
(* a Header() call that fails, checked under SpecParse and SpecHistory.     *)

\* the lines of the payload p, its last line also when no line feed ends it
RECURSIVE Lines(_)
Lines(p) ==
    IF p = <<>> THEN <<>>
    ELSE IF Index(p, LF) = -1 THEN <<p>>
    ELSE <<Slice(p, 0, Index(p, LF))>> \o Lines(Slice(p, Index(p, LF) + 1, Len(p)))

\* the values of the lines "<key> <value>" among lines, in their order
ValuesOf(lines, key) ==
    LET sel == SelectSeq(lines, LAMBDA l : HasPrefix(l, key \o <<SP>>))
    IN  [i \in 1..Len(sel) |-> SubSeq(sel[i], Len(key) + 2, Len(sel[i]))]

\* the Commit of a payload of tree and parent lines and no message
HeaderOnlyCommit(p, hash) ==
    [ZeroCommit EXCEPT !.Hash = hash,
                       !.Tree = IF ValuesOf(Lines(p), bTree) = <<>> THEN <<>>
                                ELSE ValuesOf(Lines(p), bTree)[Len(ValuesOf(Lines(p), bTree))],
                       !.Parents = ValuesOf(Lines(p), bParent)]

\* C26: a commit payload that ends without the blank line decodes without
\* error at the end of input, to a Commit with the fields of every header
\* line, a last line without line feed included, and an empty Message; a
\* read error other than the end of input is returned.
C26_EndWithoutBlankLine ==
    (DecodedAfterHeader /\ dsrc \in EndObjects)
    => IF dsrc.end = "EOF"
       THEN /\ Last.err = "nil"
            /\ \E hash \in {hA, hX} : Last.commit = HeaderOnlyCommit(Payload(dsrc), hash)
       ELSE Last.err = dsrc.end /\ Last.commit = ZeroCommit

\* the commit payload of o holds, before any blank line, a non-empty line
\* without a space
NoSeparatorLine(o) ==
    /\ o.kind = bCommit
    /\ \E i \in 1..Len(Lines(Payload(o))) :
          /\ Lines(Payload(o))[i] # <<>>
          /\ Index(Lines(Payload(o))[i], SP) = -1
          /\ \A j \in 1..(i - 1) : Lines(Payload(o))[j] # <<>>

\* C27: a non-empty header line that holds no space makes DecodeCommit fail
\* with the missing-separator error; the line is not silently ignored.
C27_NoSeparatorIsError ==
    (DecodedAfterHeader /\ NoSeparatorLine(dsrc))
    => Last.err = "ErrSeparator" /\ Last.commit = ZeroCommit

\* C28: an entry of the graph, once inserted, keeps its value for the rest of
\* the build (also when its commit is decoded and inserted again), and on
\* success Head is the entry of the head hash and every entry carries the
\* hash it is stored under.
C28_EntriesNeverChange ==
    /\ [][\A h \in DOMAIN graph.Graph :
             h \in DOMAIN graph'.Graph /\ graph'.Graph[h] = graph.Graph[h]]_vars
    /\ []((pc = "done" /\ ret.err = "nil")
          => /\ ret.hist.Head = ret.hist.Graph[repo.head]
             /\ \A h \in DOMAIN ret.hist.Graph : ret.hist.Graph[h].Hash = h)

\* C28 witness: a history of two or more commits was returned after one of
\* them had been decoded and inserted twice
C28_Witness ==
    /\ pc = "done" /\ ret.err = "nil"
    /\ Cardinality(DOMAIN ret.hist.Graph) >= 2
    /\ \E h \in DOMAIN ret.hist.Graph : decodes[h] = 2

\* the calls on the current source were Header() with success, Header() with
\* ErrNotReset, and DecodeCommit
DecodedAfterFailedHeader ==
    /\ Len(cycle) = 4 /\ cycle[1].err = "nil"
    /\ cycle[2].op = "Header" /\ cycle[2].err = "nil"
    /\ cycle[3].op = "Header" /\ cycle[3].err = "ErrNotReset"
    /\ Last.op = "DecodeCommit"

\* C29: a Header() call that fails with ErrNotReset consumes no byte of the
\* pending payload: the DecodeCommit(hash) that follows returns what it
\* would have returned without the failed call, and leaves the decoder as
\* it would have left it.
C29_FailedHeaderChangesNothing ==
    DecodedAfterFailedHeader
    => \E hash \in {hA, hX} :
          LET direct == DecodeCommit(Header(Fresh(dsrc)).d, hash) IN
          /\ Last.err = direct.err
          /\ Last.commit = direct.commit
          /\ dec = direct.d

\* C29 witness: after the failed Header() call the commit with two parents
\* was decoded whole
C29_Witness ==
    /\ DecodedAfterFailedHeader
    /\ dsrc = oMerge /\ Last.err = "nil"
    /\ Last.commit = ExpectedCommit(oMerge, hA)

-----------------------------------------------------------------------------
(* ShellClient.IsBranchDirty and the done command. The external command     *)
(* "git diff --quiet --ignore-submodules HEAD" is the environment: it ends  *)
(* with an exit status (0 for a clean branch, 1 for a dirty one, others     *)
(* for failures of git), or it cannot be started, or a signal ends it.      *)
(* gitCmd.Output() returns a nil error for exit status 0, an *ExitError     *)
(* for every other way the process ends, and the error of the start else.   *)

\* the exit statuses of a process
ExitStatuses == 0..255

\* the *exec.ExitError of a process that exited with status n
ExitError(n) == [how |-> "exit", status |-> n]

GitRuns ==
    {ExitError(n) : n \in ExitStatuses}
    \cup {[how |-> "notfound", status |-> 0], [how |-> "killed", status |-> 0]}

\* the error gitCmd.Output() returns for the run r
Output(r) == IF r = ExitError(0) THEN NilError ELSE r

bExitStatus == <<"e", "x", "i", "t", SP, "s", "t", "a", "t", "u", "s", SP>>
bKilled == <<"s", "i", "g", "n", "a", "l", ":", SP, "k", "i", "l", "l", "e", "d">>
bNotFound == <<"e", "x", "e", "c", ":", SP, "n", "o", "t", SP, "f", "o", "u", "n", "d">>

\* err.Error(): "exit status <n>" for an *ExitError of a process that
\* exited, the text of the error otherwise
Error(err) ==
    IF err.how = "exit" THEN bExitStatus \o Itoa(err.status)
    ELSE IF err.how = "killed" THEN bKilled
    ELSE bNotFound

bClean == <<"b", "r", "a", "n", "c", "h", SP, "i", "s", SP, "c", "l", "e", "a", "n">>
bDirty == <<"b", "r", "a", "n", "c", "h", SP, "i", "s", SP, "d", "i", "r", "t", "y">>

InitShell ==
    /\ gitrun \in GitRuns
    /\ spc = "start"
    /\ serr = NilError
    /\ code = <<>>
    /\ isdirty = [dirty |-> FALSE, err |-> NilError]
    /\ printed = <<>>

\* done.go line 20 and IsBranchDirty, lines 554-555: run the command
ShOutput ==
    /\ spc = "start"
    /\ serr' = Output(gitrun)
    /\ spc' = "code"
    /\ UNCHANGED <<gitrun, code, isdirty, printed>>

\* IsBranchDirty, line 556: code := err.Error(); a method call on a nil
\* error is a nil pointer dereference, a run-time panic
ShCode ==
    /\ spc = "code"
    /\ IF serr = NilError
       THEN spc' = "panicked" /\ code' = code
       ELSE spc' = "compare" /\ code' = Error(serr)
    /\ UNCHANGED <<gitrun, serr, isdirty, printed>>

\* IsBranchDirty, lines 558-566
ShCompare ==
    /\ spc = "compare"
    /\ isdirty' = IF code = bExitStatus \o <<"1">> THEN [dirty |-> TRUE, err |-> NilError]
                  ELSE IF code = bExitStatus \o <<"0">> THEN [dirty |-> FALSE, err |-> NilError]
                  ELSE [dirty |-> TRUE, err |-> serr]
    /\ spc' = "print"
    /\ UNCHANGED <<gitrun, serr, code, printed>>

\* done.go, lines 21-30
ShPrint ==
    /\ spc = "print"
    /\ printed' = IF isdirty.err # NilError THEN Error(isdirty.err)
                  ELSE IF isdirty.dirty THEN bDirty ELSE bClean
    /\ spc' = "done"
    /\ UNCHANGED <<gitrun, serr, code, isdirty>>

InitSh == InitShell /\ IdleDecoder /\ IdleHistory /\ IdleScanner

NextSh ==
    \/ ShOutput /\ UNCHANGED <<decVars, histVars, scanVars>>
    \/ ShCode /\ UNCHANGED <<decVars, histVars, scanVars>>
    \/ ShCompare /\ UNCHANGED <<decVars, histVars, scanVars>>
    \/ ShPrint /\ UNCHANGED <<decVars, histVars, scanVars>>

SpecShell == InitSh /\ [][NextSh]_vars

\* C30: IsBranchDirty returns (false, nil) when git diff exits with status
\* 0, (true, nil) when it exits with status 1 and (true, err) for every
\* other failure; it never crashes, and the done command prints "branch is
\* clean" for a clean branch.
C30_IsBranchDirtyByStatus ==
    /\ spc # "panicked"
    /\ spc = "done"
       => /\ gitrun = ExitError(0)
             => isdirty = [dirty |-> FALSE, err |-> NilError] /\ printed = bClean
          /\ gitrun = ExitError(1)
             => isdirty = [dirty |-> TRUE, err |-> NilError] /\ printed = bDirty
          /\ gitrun \notin {ExitError(0), ExitError(1)}
             => isdirty = [dirty |-> TRUE, err |-> gitrun]

====
